---- MODULE Spec2Model ----
(***************************************************************************)
(* A model of the go-qrcode encoder front end (qrcode.go, option.go):      *)
(* New, newWithForcedVersion, QRCode.encode and the steps it calls         *)
(* (addTerminatorBits, addPadding, encodeBlocks, the mask selection loop). *)
(*                                                                         *)
(* A bitset.Bitset is a sequence of bits, 0 for false and 1 for true.      *)
(* The packages the front end calls but that are not part of the sources   *)
(* at hand (bitset, reedsolomon, the data encoder, the version table, the  *)
(* symbol builder) are modelled from the specification document.          *)
(***************************************************************************)
EXTENDS Integers, Sequences, FiniteSets, TLC

(***************************************************************************)
(* Bounds of the model.                                                    *)
(***************************************************************************)
\* contents of every length 0..MaxLen are encoded, in each of the three modes
MaxLen == 2
\* a candidate symbol's penalty score is drawn from 0..MaxPenalty
MaxPenalty == 1
\* the quiet-zone sizes given through the QuitZoneSize option are 0..MaxQuiet
MaxQuiet == 2
\* the negative widths and heights given to New are -MaxScale..-1
MaxScale == 2
\* Image is called at most MaxImages times on a QRCode
MaxImages == 2

(***************************************************************************)
(* Values standing for Go's nil and for the error values.                  *)
(***************************************************************************)
\* a nil error
Nil == "nil"
\* a nil pointer; a pointer that is not nil is the one-element sequence of
\* the value it points to
NilPtr == << >>
Ptr(x) == << x >>
ErrContentTooLong == "content too long to encode"
ErrCannotFindVersion == "cannot find QR Code version"
ErrEncoder == "encoder: content too long"

(***************************************************************************)
(* package bitset                                                          *)
(***************************************************************************)
\* bitset.New(): the empty bit sequence
BitsetNew == << >>

\* b.AppendNumBools(num, value): num copies of value; a count that is not
\* positive appends nothing (the loop body never runs)
AppendNumBools(b, num, value) == b \o [i \in 1..num |-> value]

\* b.Append(other)
BitsetAppend(b, other) == b \o other

\* b.Substr(start, end): the bits [start, end), counted from 0
Substr(b, start, end) == SubSeq(b, start + 1, end)

\* the n low bits of value, most significant first (b.AppendUint32 and friends)
UintBits(value, n) == [i \in 1..n |-> (value \div (2 ^ (n - i))) % 2]

\* b.AppendUint32(value, n)
AppendUint(b, value, n) == b \o UintBits(value, n)

\* the value of 8 bits starting at bit offset off (counted from 0), MSB first
ByteAt(b, off) ==
    b[off + 1] * 128 + b[off + 2] * 64 + b[off + 3] * 32 + b[off + 4] * 16
    + b[off + 5] * 8 + b[off + 6] * 4 + b[off + 7] * 2 + b[off + 8]

(***************************************************************************)
(* The version table (version.go).  A qrCodeVersion carries the recovery   *)
(* level, the version number, the number of remainder bits, the block      *)
(* groups and the quiet-zone size.  The rows are those of ISO/IEC 18004    *)
(* table 9; the model carries the rows its inputs can select: at level Low *)
(* versions 1..10, 26, 27 and 40, at level Highest versions 1..5 and 40.   *)
(***************************************************************************)
Low == "Low"
Highest == "Highest"
Levels == {Low, Highest}

\* one block group: numBlocks blocks of numCodewords codewords each, of which
\* numDataCodewords are data
Block(n, c, d) == [numBlocks |-> n, numCodewords |-> c, numDataCodewords |-> d]

\* one row of the table; the quiet-zone size of a table row is the default
Row(l, v, r, b) ==
    [level |-> l, version |-> v, numRemainderBits |-> r, block |-> b,
     quietZoneSize |-> 4]

versions ==
    << Row(Low, 1, 0, << Block(1, 26, 19) >>),
       Row(Highest, 1, 0, << Block(1, 26, 9) >>),
       Row(Low, 2, 7, << Block(1, 44, 34) >>),
       Row(Highest, 2, 7, << Block(1, 44, 16) >>),
       Row(Low, 3, 7, << Block(1, 70, 55) >>),
       Row(Highest, 3, 7, << Block(2, 35, 13) >>),
       Row(Low, 4, 7, << Block(1, 100, 80) >>),
       Row(Highest, 4, 7, << Block(4, 25, 9) >>),
       Row(Low, 5, 7, << Block(1, 134, 108) >>),
       Row(Highest, 5, 7, << Block(2, 33, 11), Block(2, 34, 12) >>),
       Row(Low, 6, 7, << Block(2, 86, 68) >>),
       Row(Low, 7, 0, << Block(2, 98, 78) >>),
       Row(Low, 8, 0, << Block(2, 121, 97) >>),
       Row(Low, 9, 0, << Block(2, 146, 116) >>),
       Row(Low, 10, 0, << Block(2, 86, 68), Block(2, 87, 69) >>),
       Row(Low, 26, 4, << Block(10, 142, 114), Block(2, 143, 115) >>),
       Row(Low, 27, 4, << Block(8, 152, 122), Block(4, 153, 123) >>),
       Row(Low, 40, 0, << Block(19, 148, 118), Block(6, 149, 119) >>),
       Row(Highest, 40, 0, << Block(20, 45, 15), Block(61, 46, 16) >>) >>

\* v.numBlocks(): the number of blocks over all groups
RECURSIVE numBlocksFrom(_, _)
numBlocksFrom(block, i) ==
    IF i > Len(block) THEN 0
    ELSE block[i].numBlocks + numBlocksFrom(block, i + 1)

numBlocks(v) == numBlocksFrom(v.block, 1)

\* v.numDataCodewords(): the data codewords of every block of every group
RECURSIVE numDataCodewordsFrom(_, _)
numDataCodewordsFrom(block, i) ==
    IF i > Len(block) THEN 0
    ELSE block[i].numBlocks * block[i].numDataCodewords
         + numDataCodewordsFrom(block, i + 1)

\* v.numDataBits(): 8 bits per data codeword
numDataBits(v) == 8 * numDataCodewordsFrom(v.block, 1)

\* v.symbolSize(): the side of the symbol in modules, without quiet zone
symbolSize(v) == 17 + 4 * v.version

\* v.setQuietZoneSize(size)
setQuietZoneSize(v, size) == [v EXCEPT !.quietZoneSize = size]

\* v.numTerminatorBitsRequired(numDataBits): min(4, free bits)
numTerminatorBitsRequired(v, len) ==
    LET numFreeBits == numDataBits(v) - len
    IN  IF numFreeBits >= 4 THEN 4 ELSE numFreeBits

\* v.numBitsToPadToCodeword(numDataBits): up to the next multiple of 8
numBitsToPadToCodeword(v, len) ==
    IF len = numDataBits(v) THEN 0 ELSE (8 - (len % 8)) % 8

\* getQRCodeVersion(level, version): a pointer to the row of the table, or nil
getQRCodeVersion(level, version) ==
    LET hit == {i \in 1..Len(versions) :
                   versions[i].level = level /\ versions[i].version = version}
    IN  IF hit = {} THEN NilPtr ELSE Ptr(versions[CHOOSE i \in hit : TRUE])

(***************************************************************************)
(* Contents.  A content is named by its kind and its length; Bytes(c) is   *)
(* the byte string it stands for.                                          *)
(***************************************************************************)
Content(k, n) == [kind |-> k, len |-> n]

\* the i-th byte (from 1) of a content: digits for "numeric", capital letters
\* and digits for "alnum", small letters for "byte"
ByteOf(c, i) ==
    CASE c.kind = "numeric" -> 48 + ((3 * i + 1) % 10)
      [] c.kind = "alnum"   -> IF i % 2 = 1 THEN 65 + (i % 26) ELSE 48 + (i % 10)
      [] OTHER              -> 97 + (i % 26)

Bytes(c) == [i \in 1..c.len |-> ByteOf(c, i)]

(***************************************************************************)
(* The data encoder (encoder.go): one encoder per version class.           *)
(***************************************************************************)
dataEncoderType1To9 == "dataEncoderType1To9"
dataEncoderType10To26 == "dataEncoderType10To26"
dataEncoderType27To40 == "dataEncoderType27To40"

\* newDataEncoder(t): the version range and the character-count widths
newDataEncoder(t) ==
    CASE t = dataEncoderType1To9 ->
           [type |-> t, minVersion |-> 1, maxVersion |-> 9,
            numNumericCharCountBits |-> 10,
            numAlphanumericCharCountBits |-> 9,
            numByteCharCountBits |-> 8]
      [] t = dataEncoderType10To26 ->
           [type |-> t, minVersion |-> 10, maxVersion |-> 26,
            numNumericCharCountBits |-> 12,
            numAlphanumericCharCountBits |-> 11,
            numByteCharCountBits |-> 16]
      [] OTHER ->
           [type |-> dataEncoderType27To40, minVersion |-> 27, maxVersion |-> 40,
            numNumericCharCountBits |-> 14,
            numAlphanumericCharCountBits |-> 13,
            numByteCharCountBits |-> 16]

IsNumericChar(ch) == ch \in 48..57

\* the value of a character of the 45-character alphanumeric set, or -1
AlphanumericValue(ch) ==
    CASE ch \in 48..57 -> ch - 48
      [] ch \in 65..90 -> ch - 55
      [] ch = 32 -> 36
      [] ch = 36 -> 37
      [] ch = 37 -> 38
      [] ch = 42 -> 39
      [] ch = 43 -> 40
      [] ch = 45 -> 41
      [] ch = 46 -> 42
      [] ch = 47 -> 43
      [] ch = 58 -> 44
      [] OTHER -> -1

\* the single mode of a payload: numeric, else alphanumeric, else byte
ModeOf(data) ==
    IF \A i \in 1..Len(data) : IsNumericChar(data[i]) THEN "numeric"
    ELSE IF \A i \in 1..Len(data) : AlphanumericValue(data[i]) >= 0
         THEN "alphanumeric"
         ELSE "byte"

\* numeric payload: 3 digits in 10 bits, a trailing pair in 7, a single in 4
NumericBits(data) ==
    LET n == Len(data)
        full == n \div 3
        rest == n % 3
        tailBits == IF rest = 0 THEN 0 ELSE IF rest = 1 THEN 4 ELSE 7
        d(i) == data[i] - 48
        tailValue == IF rest = 1 THEN d(n)
                     ELSE 10 * d(n - 1) + d(n)
        group(g) == 100 * d(3 * g + 1) + 10 * d(3 * g + 2) + d(3 * g + 3)
    IN  [i \in 1..(10 * full + tailBits) |->
            IF i <= 10 * full
            THEN (group((i - 1) \div 10) \div (2 ^ (9 - ((i - 1) % 10)))) % 2
            ELSE (tailValue \div (2 ^ (10 * full + tailBits - i))) % 2]

\* alphanumeric payload: a pair as 45a+b in 11 bits, a trailing single in 6
AlphanumericBits(data) ==
    LET n == Len(data)
        full == n \div 2
        tailBits == IF n % 2 = 0 THEN 0 ELSE 6
        a(i) == AlphanumericValue(data[i])
        pair(g) == 45 * a(2 * g + 1) + a(2 * g + 2)
    IN  [i \in 1..(11 * full + tailBits) |->
            IF i <= 11 * full
            THEN (pair((i - 1) \div 11) \div (2 ^ (10 - ((i - 1) % 11)))) % 2
            ELSE (a(n) \div (2 ^ (11 * full + tailBits - i))) % 2]

\* byte payload: each byte in 8 bits
ByteBits(data) ==
    [i \in 1..(8 * Len(data)) |->
        (data[((i - 1) \div 8) + 1] \div (2 ^ (7 - ((i - 1) % 8)))) % 2]

\* the mode indicator, the character count and the payload of the data in
\* the widths of encoder e
EncodedBits(e, data) ==
    LET mode == ModeOf(data)
        indicator == CASE mode = "numeric" -> 1
                       [] mode = "alphanumeric" -> 2
                       [] OTHER -> 4
        width == CASE mode = "numeric" -> e.numNumericCharCountBits
                   [] mode = "alphanumeric" -> e.numAlphanumericCharCountBits
                   [] OTHER -> e.numByteCharCountBits
        payload == CASE mode = "numeric" -> NumericBits(data)
                     [] mode = "alphanumeric" -> AlphanumericBits(data)
                     [] OTHER -> ByteBits(data)
    IN  AppendUint(AppendUint(BitsetNew, indicator, 4), Len(data), width)
        \o payload

\* the data bits of the largest symbol, version 40 at level Low
LargestNumDataBits == numDataBits(getQRCodeVersion(Low, 40)[1])

\* e.encode(data): the encoded bits, or an error when even the largest symbol
\* cannot hold them
dataEncoderEncode(e, data) ==
    LET bits == EncodedBits(e, data)
    IN  IF Len(bits) > LargestNumDataBits
        THEN [encoded |-> BitsetNew, err |-> ErrEncoder]
        ELSE [encoded |-> bits, err |-> Nil]

\* chooseQRCodeVersion(level, encoder, numDataBits): a pointer to the first
\* row of the table, in version order, of the level and inside the encoder's
\* range whose data capacity holds numDataBits bits; nil when there is none
RECURSIVE chooseFrom(_, _, _, _)
chooseFrom(i, level, e, len) ==
    IF i > Len(versions) THEN NilPtr
    ELSE LET v == versions[i]
         IN  IF v.level # level THEN chooseFrom(i + 1, level, e, len)
             ELSE IF v.version < e.minVersion
                  THEN chooseFrom(i + 1, level, e, len)
                  ELSE IF v.version > e.maxVersion THEN NilPtr
                       ELSE IF numDataBits(v) - len >= 0 THEN Ptr(v)
                            ELSE chooseFrom(i + 1, level, e, len)

chooseQRCodeVersion(level, e, len) == chooseFrom(1, level, e, len)

(***************************************************************************)
(* package reedsolomon: GF(2^8) with the primitive polynomial              *)
(* x^8 + x^4 + x^3 + x^2 + 1 and the primitive element 2.                  *)
(***************************************************************************)
\* the bitwise exclusive or of two codewords
RECURSIVE xor(_, _)
xor(a, b) ==
    IF a = 0 THEN b
    ELSE IF b = 0 THEN a
         ELSE ((a + b) % 2) + 2 * xor(a \div 2, b \div 2)

\* the exclusive or of every pair of codewords, at indices a + 1 and b + 1
xorTable ==
    SubSeq([a \in 1..256 |->
               SubSeq([b \in 1..256 |-> xor(a - 1, b - 1)], 1, 256)], 1, 256)

\* addition in the field is the exclusive or
gfAdd(a, b) == xorTable[a + 1][b + 1]

\* the product of a field element by the primitive element 2
gfDouble(a) == IF 2 * a >= 256 THEN gfAdd(2 * a - 256, 29) ELSE 2 * a

\* the product of two field elements, by shift and add
RECURSIVE gfShiftMultiply(_, _)
gfShiftMultiply(a, b) ==
    IF b = 0 THEN 0
    ELSE gfAdd(IF b % 2 = 1 THEN a ELSE 0,
               gfShiftMultiply(gfDouble(a), b \div 2))

\* the power 2^i of the primitive element
RECURSIVE gfPower(_)
gfPower(i) ==
    IF i = 0 THEN 1
    ELSE LET half == gfPower(i \div 2)
             square == gfShiftMultiply(half, half)
         IN  IF i % 2 = 1 THEN gfDouble(square) ELSE square

\* the powers 2^0 .. 2^254, at indices 1 .. 255
gfExpTable == SubSeq([i \in 1..255 |-> gfPower(i - 1)], 1, 255)

\* the logarithm to the base 2 of the elements 1 .. 255
gfLogTable ==
    SubSeq([a \in 1..255 |-> CHOOSE i \in 0..254 : gfExpTable[i + 1] = a],
           1, 255)

\* multiplication in the field
gfMultiply(a, b) ==
    IF a = 0 \/ b = 0 THEN 0
    ELSE gfExpTable[((gfLogTable[a] + gfLogTable[b]) % 255) + 1]

\* the generator polynomial of degree t, the product of (x - 2^i) for
\* i = 0 .. t-1, coefficients from the highest degree down
RECURSIVE generatorFrom(_, _, _)
generatorFrom(g, i, t) ==
    IF i = t THEN SubSeq(g, 1, t + 1)
    ELSE LET root == gfExpTable[i + 1]
             n == Len(g)
             next == [j \in 1..(n + 1) |->
                        IF j = 1 THEN g[1]
                        ELSE IF j = n + 1 THEN gfMultiply(g[n], root)
                             ELSE gfAdd(g[j], gfMultiply(g[j - 1], root))]
         IN  generatorFrom(next, i + 1, t)

\* the numbers of error-correction codewords per block of the version table
ECCounts ==
    UNION {{versions[i].block[j].numCodewords
              - versions[i].block[j].numDataCodewords :
               j \in 1..Len(versions[i].block)} : i \in 1..Len(versions)}

generatorPoly == [t \in ECCounts |-> generatorFrom(<< 1 >>, 0, t)]

\* the remainder of data * x^t by the generator: one step of the division
\* per data codeword
RECURSIVE rsRemainder(_, _, _, _)
rsRemainder(codewords, i, rem, gen) ==
    IF Len(rem) = 0 \/ i > Len(codewords) THEN rem
    ELSE LET t == Len(rem)
             factor == gfAdd(codewords[i], rem[1])
             shifted == Tail(rem) \o << 0 >>
             next == [j \in 1..t |->
                        gfAdd(shifted[j], gfMultiply(gen[j + 1], factor))]
         IN  rsRemainder(codewords, i + 1, next, gen)

\* the bits of a sequence of codewords, 8 per codeword, MSB first
CodewordBits(codewords) ==
    [i \in 1..(8 * Len(codewords)) |->
        (codewords[((i - 1) \div 8) + 1] \div (2 ^ (7 - ((i - 1) % 8)))) % 2]

\* the codewords of a bit sequence whose length is a multiple of 8
Codewords(b) == [i \in 1..(Len(b) \div 8) |-> ByteAt(b, 8 * (i - 1))]

\* reedsolomon.Encode(data, numECBytes): the data followed by its
\* error-correction codewords
reedsolomonEncode(data, numECBytes) ==
    LET rem == rsRemainder(Codewords(data), 1, [j \in 1..numECBytes |-> 0],
                           generatorPoly[numECBytes])
    IN  data \o CodewordBits(rem)

(***************************************************************************)
(* The symbol (symbol.go, regular_symbol.go).  Of a symbol the model keeps *)
(* the mask it was built with and its sizes; its penalty score is an input *)
(* of the step that builds it.                                             *)
(***************************************************************************)
\* the codewords of every block of every group
RECURSIVE numCodewordsFrom(_, _)
numCodewordsFrom(block, i) ==
    IF i > Len(block) THEN 0
    ELSE block[i].numBlocks * block[i].numCodewords
         + numCodewordsFrom(block, i + 1)

\* the modules of a symbol that are left to the message: 8 per codeword,
\* and the remainder bits
numMessageBits(v) == 8 * numCodewordsFrom(v.block, 1) + v.numRemainderBits

\* buildRegularSymbol(version, mask, data, margin): a symbol of the
\* version's size inside the version's quiet zone; an error when the data
\* does not fill the symbol exactly
buildRegularSymbol(v, mask, data, margin) ==
    IF Len(data) # numMessageBits(v)
    THEN [symbol |-> NilPtr, err |-> "data does not fill the symbol"]
    ELSE [symbol |-> Ptr([mask |-> mask,
                          symbolSize |-> symbolSize(v),
                          quietZoneSize |-> v.quietZoneSize,
                          size |-> symbolSize(v) + 2 * v.quietZoneSize]),
          err |-> Nil]

\* s.numEmptyModules(): a symbol built without error from a message that
\* fills it has every module set
numEmptyModules(s) == 0

(***************************************************************************)
(* qrcode.go: the steps of QRCode.encode.                                  *)
(***************************************************************************)
\* const numMasks in encode
numMasks == 8

\* addTerminatorBits without the cap: always four bits
addFourTerminatorBits(data, numTerminatorBits) == AppendNumBools(data, 4, 0)

\* q.addTerminatorBits(numTerminatorBits)
addTerminatorBits(data, numTerminatorBits) ==
    AppendNumBools(data, numTerminatorBits, 0)

\* padding with the two pad codewords in the other order
paddingSwapped == << << 0, 0, 0, 1, 0, 0, 0, 1 >>, << 1, 1, 1, 0, 1, 1, 0, 0 >> >>

\* the pad codewords 0b11101100 and 0b00010001 of addPadding
padding == << << 1, 1, 1, 0, 1, 1, 0, 0 >>, << 0, 0, 0, 1, 0, 0, 0, 1 >> >>

\* the loop of addPadding: pad codewords alternately while 8 bits are free
RECURSIVE padLoop(_, _, _)
padLoop(data, i, total) ==
    IF total - Len(data) >= 8
    THEN padLoop(BitsetAppend(data, padding[i + 1]), 1 - i, total)
    ELSE data

\* lengthBreach that lets data that is too long pass
lengthBreachShort(len, total) == len < total

\* "if q.data.Len() != numDataBits { log.Panicf(...) }"
lengthBreach(len, total) == len # total

\* q.addPadding(): the padded data, and whether the final length check panics
addPadding(data, v) ==
    LET total == numDataBits(v)
    IN  IF Len(data) = total
        THEN [data |-> data, panic |-> FALSE]
        ELSE LET aligned ==
                     AppendNumBools(data, numBitsToPadToCodeword(v, Len(data)), 0)
                 padded == padLoop(aligned, 0, total)
             IN  [data |-> padded, panic |-> lengthBreach(Len(padded), total)]

\* blockEnd counting codewords for bits
blockEndInCodewords(start, numDataCodewords) == start + numDataCodewords

\* "end = start + b.numDataCodewords*8"
blockEnd(start, numDataCodewords) == start + numDataCodewords * 8

\* the first loop of encodeBlocks: the blocks of group g from its j-th block
\* on, and of the groups after it; each block is the Reed-Solomon encoding of
\* the next numDataCodewords*8 bits of the data, and ecStartOffset is where
\* its error-correction codewords start
RECURSIVE splitBlocks(_, _, _, _, _)
splitBlocks(data, groups, g, j, end) ==
    IF g > Len(groups) THEN << >>
    ELSE IF j >= groups[g].numBlocks THEN splitBlocks(data, groups, g + 1, 0, end)
         ELSE LET b == groups[g]
                  start == end
                  newEnd == blockEnd(start, b.numDataCodewords)
                  numErrorCodewords == b.numCodewords - b.numDataCodewords
                  blk == [data |-> reedsolomonEncode(Substr(data, start, newEnd),
                                                     numErrorCodewords),
                          ecStartOffset |-> newEnd - start]
              IN  << blk >> \o splitBlocks(data, groups, g, j + 1, newEnd)

\* dataExhausted with > for >=: one pass too many over each block
dataExhaustedLate(i, ecStartOffset) == i > ecStartOffset

\* "if i >= block[j].ecStartOffset { continue }": the block has no i-th data
\* bit
dataExhausted(i, ecStartOffset) == i >= ecStartOffset

\* one pass of the data loop over the blocks, from block j on
RECURSIVE dataPass(_, _, _, _)
dataPass(block, j, i, acc) ==
    IF j > Len(block) THEN acc
    ELSE IF dataExhausted(i, block[j].ecStartOffset)
         THEN dataPass(block, j + 1, i, acc)
         ELSE dataPass(block, j + 1, i,
                       [result |-> BitsetAppend(acc.result,
                                                Substr(block[j].data, i, i + 8)),
                        working |-> TRUE])

\* "Combine data blocks": for i = 0, 8, 16, ... while the last pass appended
RECURSIVE combineData(_, _, _)
combineData(block, i, result) ==
    LET pass == dataPass(block, 1, i, [result |-> result, working |-> FALSE])
    IN  IF pass.working THEN combineData(block, i + 8, pass.result)
        ELSE pass.result

\* ecExhausted one codeword early: the last codeword of each block is lost
ecExhaustedEarly(offset, len) == offset + 8 >= len

\* "if offset >= block[j].data.Len() { continue }": the block has no
\* error-correction bit at offset
ecExhausted(offset, len) == offset >= len

\* one pass of the error-correction loop over the blocks, from block j on
RECURSIVE ecPass(_, _, _, _)
ecPass(block, j, i, acc) ==
    IF j > Len(block) THEN acc
    ELSE LET offset == i + block[j].ecStartOffset
         IN  IF ecExhausted(offset, Len(block[j].data))
             THEN ecPass(block, j + 1, i, acc)
             ELSE ecPass(block, j + 1, i,
                         [result |-> BitsetAppend(acc.result,
                                        Substr(block[j].data, offset, offset + 8)),
                          working |-> TRUE])

\* "Combine error correction blocks"
RECURSIVE combineEC(_, _, _)
combineEC(block, i, result) ==
    LET pass == ecPass(block, 1, i, [result |-> result, working |-> FALSE])
    IN  IF pass.working THEN combineEC(block, i + 8, pass.result)
        ELSE pass.result

\* "Append remainder bits"
appendRemainder(result, v) == AppendNumBools(result, v.numRemainderBits, 0)

\* q.encodeBlocks(): the final message
encodeBlocks(data, v) ==
    LET block == splitBlocks(data, v.block, 1, 0, 0)
        withData == combineData(block, 0, BitsetNew)
        withEC == combineEC(block, 0, withData)
    IN  appendRemainder(withEC, v)

\* retain with <= for <: a later candidate of the same score replaces the symbol
retainOnEqual(symbol, p, penalty) == symbol = NilPtr \/ p <= penalty

\* "if q.symbol == nil || p < penalty": the candidate replaces the symbol
\* retained so far
retain(symbol, p, penalty) == symbol = NilPtr \/ p < penalty

(***************************************************************************)
(* qrcode.go, option.go: the QRCode and the functions that construct it.   *)
(***************************************************************************)
\* the zero value of a qrCodeVersion
zeroVersion ==
    [level |-> Low, version |-> 0, numRemainderBits |-> 0, block |-> << >>,
     quietZoneSize |-> 0]

\* &QRCode{Content: content}: every other field has its zero value (the
\* colours are left out of the model)
newQRCode(content) ==
    [Content |-> content, level |-> Low, VersionNumber |-> 0,
     encoder |-> NilPtr, version |-> zeroVersion, data |-> BitsetNew,
     symbol |-> NilPtr, mask |-> 0, width |-> 0, height |-> 0, margin |-> 0,
     QuitZoneSize |-> 0]

\* the options of a call: each is nil when the option is not given, and else
\* points to the value given
Options(l, s) ==
    [level |-> l, quiet |-> s, version |-> NilPtr, width |-> NilPtr,
     height |-> NilPtr]

\* the options and Width(w), Height(h)
WithSize(opts, w, h) == [opts EXCEPT !.width = Ptr(w), !.height = Ptr(h)]

\* the options and Version(v)
WithVersion(opts, v) == [opts EXCEPT !.version = Ptr(v)]

\* func Level(l): q.level = l
Level(qr, l) == [qr EXCEPT !.level = l]

\* func QuitZoneSize(s): q.version.setQuietZoneSize(s)
QuitZoneSize(qr, s) == [qr EXCEPT !.version = setQuietZoneSize(qr.version, s)]

\* func Width(w): q.width = w
Width(qr, w) == [qr EXCEPT !.width = w]

\* func Height(h): q.height = h
Height(qr, h) == [qr EXCEPT !.height = h]

\* func Version(v): q.VersionNumber = v
Version(qr, v) == [qr EXCEPT !.VersionNumber = v]

\* q.Set(opts...): every option given is applied to q
Set(qr, opts) ==
    LET q1 == IF opts.level = NilPtr THEN qr ELSE Level(qr, opts.level[1])
        q2 == IF opts.quiet = NilPtr THEN q1
              ELSE QuitZoneSize(q1, opts.quiet[1])
        q3 == IF opts.version = NilPtr THEN q2
              ELSE Version(q2, opts.version[1])
        q4 == IF opts.width = NilPtr THEN q3 ELSE Width(q3, opts.width[1])
    IN  IF opts.height = NilPtr THEN q4 ELSE Height(q4, opts.height[1])

\* the encoders New tries, in this order
encoders ==
    << dataEncoderType1To9, dataEncoderType10To26, dataEncoderType27To40 >>

\* stopAtChosen without the break: the loop goes on to the last class
neverStop(chosenVersion) == FALSE

\* "if chosenVersion != nil { break }"
stopAtChosen(chosenVersion) == chosenVersion # NilPtr

\* the loop of New over the encoders, from the i-th on; st holds its variables
\* encoder, encoded, chosenVersion and err
RECURSIVE newLoop(_, _, _, _)
newLoop(i, content, level, st) ==
    IF i > Len(encoders) THEN st
    ELSE LET encoder == newDataEncoder(encoders[i])
             r == dataEncoderEncode(encoder, Bytes(content))
         IN  IF r.err # Nil
             THEN newLoop(i + 1, content, level,
                          [st EXCEPT !.encoder = Ptr(encoder),
                                     !.encoded = r.encoded,
                                     !.err = r.err])
             ELSE LET chosen ==
                          chooseQRCodeVersion(level, encoder, Len(r.encoded))
                      next == [encoder |-> Ptr(encoder), encoded |-> r.encoded,
                               chosenVersion |-> chosen, err |-> Nil]
                  IN  IF stopAtChosen(chosen) THEN next
                      ELSE newLoop(i + 1, content, level, next)

\* the variables of the loop before its first pass
newLoopStart ==
    [encoder |-> NilPtr, encoded |-> BitsetNew, chosenVersion |-> NilPtr,
     err |-> Nil]

\* newError without the test of chosenVersion
newErrorOnlyErr(err, chosenVersion) == err

\* the error New returns after the loop, or nil when it goes on to encode
newError(err, chosenVersion) ==
    IF err # Nil THEN err
    ELSE IF chosenVersion = NilPtr THEN ErrContentTooLong
         ELSE Nil

\* the switch of newWithForcedVersion: the encoder type of the version, nil
\* in the default case
forcedEncoderType(version) ==
    IF version >= 1 /\ version <= 9 THEN Ptr(dataEncoderType1To9)
    ELSE IF version >= 10 /\ version <= 26 THEN Ptr(dataEncoderType10To26)
         ELSE IF version >= 27 /\ version <= 40 THEN Ptr(dataEncoderType27To40)
              ELSE NilPtr

\* variableSize without the change of sign
variableSizeSigned(size, realSize) ==
    IF size < 0 THEN size * realSize ELSE size

\* Image: "if q.width < 0 { q.width = q.width * -1 * realSize }"
variableSize(size, realSize) ==
    IF size < 0 THEN size * (0 - 1) * realSize ELSE size

\* Image: "if q.width < realSize { q.width = realSize }"
atLeastRealSize(size, realSize) == IF size < realSize THEN realSize ELSE size

\* q.Image(): the width and height q is left with, and the image returned,
\* of which the model keeps the bounds and the pixels of a module; the image
\* is drawn q.width wide, and scale makes a square of side q.width of an
\* image narrower than q.width
Image(qr) ==
    LET realSize == qr.symbol[1].size
        width == atLeastRealSize(variableSize(qr.width, realSize), realSize)
        height == atLeastRealSize(variableSize(qr.height, realSize), realSize)
        dx == width
        img == [width |-> width, height |-> height,
                pixelsPerModuleX |-> width \div realSize,
                pixelsPerModuleY |-> height \div realSize]
    IN  [q |-> [qr EXCEPT !.width = width, !.height = height],
         image |-> IF width > dx
                   THEN [img EXCEPT !.width = width, !.height = width]
                   ELSE img]

(***************************************************************************)
(* The state.                                                              *)
(***************************************************************************)
VARIABLES
    pc,                \* where the program is: "idle" before the call, the
                       \* step of encode that is next, "returned" after the
                       \* return, "panicked" after a panic, "exited" after
                       \* log.Fatalf has ended the process
    call,              \* the function called and its arguments
    q,                 \* the pointer to the QRCode under construction
    ret,               \* the values returned: the QRCode pointer and the error
    numTerminatorBits, \* the argument of encode
    encoded,           \* encode's variable encoded, the final message
    mask,              \* encode's loop variable mask
    penalty,           \* encode's variable penalty
    scores,            \* the penalty scores of the candidates built so far
    images             \* the images that the calls of q.Image() returned

vars ==
    << pc, call, q, ret, numTerminatorBits, encoded, mask, penalty, scores,
       images >>

NoCall == [fn |-> "none", content |-> Content("numeric", 0),
           opts |-> Options(NilPtr, NilPtr), version |-> 0, level |-> Low]

NoReturn == [qrcode |-> "none", err |-> "none"]

Init ==
    /\ pc = "idle"
    /\ call = NoCall
    /\ q = NilPtr
    /\ ret = NoReturn
    /\ numTerminatorBits = 0
    /\ encoded = BitsetNew
    /\ mask = 0
    /\ penalty = 0
    /\ scores = << >>
    /\ images = << >>

(***************************************************************************)
(* The calls of the model.                                                 *)
(***************************************************************************)
Kinds == {"numeric", "alnum", "byte"}

SmallContents == {Content(k, n) : k \in Kinds, n \in 0..MaxLen}

\* at level Low: the short contents; contents that leave version 1 four free
\* bits, one free bit and none; a content that fills version 2 exactly; the
\* first contents of the classes 10-26 and 27-40; a content longer than
\* version 40 holds
LowContents ==
    SmallContents \cup
    {Content("byte", 17), Content("byte", 18), Content("numeric", 41),
     Content("alnum", 47), Content("byte", 231), Content("byte", 1368),
     Content("byte", 2954)}

\* at level Highest: the short contents; contents at the end of version 1,
\* the start of version 2 and the end of version 5 (blocks of unequal
\* lengths); a content longer than version 40 holds
HighestContents ==
    SmallContents \cup
    {Content("byte", 7), Content("byte", 8), Content("numeric", 17),
     Content("byte", 44), Content("byte", 1274)}

\* widths and heights: negative, zero, just below and at the side of a
\* version 1 symbol, and above it without being a multiple of it
Sizes == ((0 - MaxScale)..(0 - 1)) \cup {0, 20, 21, 50}

\* the pairs of width and height given to New
ImageSizes ==
    {wh \in Sizes \X Sizes : wh[1] = wh[2] \/ wh[2] = 0 \/ wh[1] = 50}

NewCalls ==
    {[content |-> c, opts |-> Options(Ptr(Low), NilPtr)] : c \in LowContents}
    \cup
    {[content |-> c, opts |-> Options(Ptr(Highest), NilPtr)] :
        c \in HighestContents}
    \cup
    {[content |-> Content("byte", 1), opts |-> Options(NilPtr, Ptr(s))] :
        s \in 0..MaxQuiet}
    \cup
    {[content |-> Content("byte", 1), opts |-> Options(NilPtr, NilPtr)]}
    \cup
    {[content |-> Content("byte", 1),
      opts |-> WithSize(Options(NilPtr, NilPtr), wh[1], wh[2])] :
        wh \in ImageSizes}
    \cup
    {[content |-> c, opts |-> WithVersion(Options(NilPtr, NilPtr), v)] :
        c \in {Content("byte", 1), Content("byte", 18)}, v \in {1, 2, 40}}

ForcedCalls ==
    {[content |-> c, version |-> v, level |-> l] :
        c \in {Content("byte", 1), Content("byte", 18)},
        v \in {-1, 0, 1, 2, 41},
        l \in Levels}

(***************************************************************************)
(* The actions.                                                            *)
(***************************************************************************)
encodeLocals == << numTerminatorBits, encoded, mask, penalty, scores >>

\* "return nil, err"
ReturnError(err) ==
    /\ pc' = "returned"
    /\ ret' = [qrcode |-> "nil", err |-> err]
    /\ q' = NilPtr
    /\ UNCHANGED << encodeLocals, images >>

\* q.encode(n) is entered with the QRCode qr
EnterEncode(qr, n) ==
    /\ pc' = "addTerminatorBits"
    /\ q' = Ptr(qr)
    /\ numTerminatorBits' = n
    /\ UNCHANGED << ret, encoded, mask, penalty, scores, images >>

\* a panic, or log.Fatalf: nothing is returned
Abort(how) ==
    /\ pc' = how
    /\ UNCHANGED << q, ret, encodeLocals, images >>

\* New(content, opts...), up to its call of q.encode
CallNew(c) ==
    /\ pc = "idle"
    /\ call' = [NoCall EXCEPT !.fn = "New", !.content = c.content,
                              !.opts = c.opts]
    /\ LET q0 == Set(newQRCode(c.content), c.opts)
           st == newLoop(1, c.content, q0.level, newLoopStart)
           err == newError(st.err, st.chosenVersion)
       IN  IF err # Nil THEN ReturnError(err)
           ELSE IF st.chosenVersion = NilPtr
                THEN \* chosenVersion.version: a nil pointer dereference
                     Abort("panicked")
                ELSE LET chosenVersion == st.chosenVersion[1]
                         q1 == [q0 EXCEPT
                                  !.VersionNumber = chosenVersion.version,
                                  !.encoder = st.encoder,
                                  !.data = st.encoded,
                                  !.version = setQuietZoneSize(chosenVersion,
                                                               q0.QuitZoneSize)]
                     IN  EnterEncode(q1,
                             numTerminatorBitsRequired(chosenVersion,
                                                       Len(st.encoded)))

\* newWithForcedVersion(content, version, level), up to its call of q.encode
CallNewWithForcedVersion(c) ==
    /\ pc = "idle"
    /\ call' = [NoCall EXCEPT !.fn = "newWithForcedVersion",
                              !.content = c.content, !.version = c.version,
                              !.level = c.level]
    /\ LET type == forcedEncoderType(c.version)
       IN  IF type = NilPtr
           THEN \* log.Fatalf("Invalid version ...")
                Abort("exited")
           ELSE LET encoder == newDataEncoder(type[1])
                    r == dataEncoderEncode(encoder, Bytes(c.content))
                    chosen == getQRCodeVersion(c.level, c.version)
                IN  IF r.err # Nil THEN ReturnError(r.err)
                    ELSE IF chosen = NilPtr
                         THEN ReturnError(ErrCannotFindVersion)
                         ELSE EnterEncode(
                                  [newQRCode(c.content) EXCEPT
                                     !.level = c.level,
                                     !.VersionNumber = chosen[1].version,
                                     !.encoder = Ptr(encoder),
                                     !.data = r.encoded,
                                     !.version = chosen[1]],
                                  numTerminatorBitsRequired(chosen[1],
                                                            Len(r.encoded)))

\* encode: q.addTerminatorBits(numTerminatorBits)
StepAddTerminatorBits ==
    /\ pc = "addTerminatorBits"
    /\ q' = Ptr([q[1] EXCEPT
                   !.data = addTerminatorBits(q[1].data, numTerminatorBits)])
    /\ pc' = "addPadding"
    /\ UNCHANGED << call, ret, encodeLocals, images >>

\* encode: q.addPadding()
StepAddPadding ==
    /\ pc = "addPadding"
    /\ LET r == addPadding(q[1].data, q[1].version)
       IN  /\ q' = Ptr([q[1] EXCEPT !.data = r.data])
           /\ pc' = IF r.panic THEN "panicked" ELSE "encodeBlocks"
    /\ UNCHANGED << call, ret, encodeLocals, images >>

\* encode: encoded := q.encodeBlocks(), and the start of the loop
StepEncodeBlocks ==
    /\ pc = "encodeBlocks"
    /\ encoded' = encodeBlocks(q[1].data, q[1].version)
    /\ mask' = 0
    /\ penalty' = 0
    /\ pc' = "mask"
    /\ UNCHANGED << call, q, ret, numTerminatorBits, scores, images >>

\* encode: one pass of the loop over the masks; p is the penalty score of
\* the candidate symbol
StepMask ==
    /\ pc = "mask"
    /\ mask < numMasks
    /\ \E p \in 0..MaxPenalty :
          LET s == buildRegularSymbol(q[1].version, mask, encoded, q[1].margin)
          IN  IF s.err # Nil
              THEN \* log.Panic(err.Error())
                   /\ pc' = "panicked"
                   /\ UNCHANGED << q, mask, penalty, scores >>
              ELSE IF numEmptyModules(s.symbol[1]) # 0
              THEN \* log.Panicf("bug: numEmptyModules is %d ...")
                   /\ pc' = "panicked"
                   /\ UNCHANGED << q, mask, penalty, scores >>
              ELSE /\ scores' = Append(scores, p)
                   /\ IF retain(q[1].symbol, p, penalty)
                      THEN /\ q' = Ptr([q[1] EXCEPT !.symbol = s.symbol,
                                                    !.mask = mask])
                           /\ penalty' = p
                      ELSE UNCHANGED << q, penalty >>
                   /\ mask' = mask + 1
                   /\ pc' = "mask"
    /\ UNCHANGED << call, ret, numTerminatorBits, encoded, images >>

\* the loop is over: encode returns, and its caller returns q, nil
StepReturn ==
    /\ pc = "mask"
    /\ mask >= numMasks
    /\ pc' = "returned"
    /\ ret' = [qrcode |-> "q", err |-> Nil]
    /\ UNCHANGED << call, q, encodeLocals, images >>

\* q.Image() on the QRCode returned
CallImage ==
    /\ pc = "returned"
    /\ ret.qrcode = "q"
    /\ Len(images) < MaxImages
    /\ LET r == Image(q[1])
       IN  /\ q' = Ptr(r.q)
           /\ images' = Append(images, r.image)
    /\ UNCHANGED << pc, call, ret, encodeLocals >>

Next ==
    \/ \E c \in NewCalls : CallNew(c)
    \/ \E c \in ForcedCalls : CallNewWithForcedVersion(c)
    \/ StepAddTerminatorBits
    \/ StepAddPadding
    \/ StepEncodeBlocks
    \/ StepMask
    \/ StepReturn
    \/ CallImage

Spec == Init /\ [][Next]_vars

(***************************************************************************)
(* Properties.                                                             *)
(***************************************************************************)
Zeros(n) == [i \in 1..n |-> 0]

Min(a, b) == IF a <= b THEN a ELSE b

\* the level of the call: the level given, Low when New is given none
CallLevel ==
    IF call.fn = "newWithForcedVersion" THEN call.level
    ELSE IF call.opts.level = NilPtr THEN Low ELSE call.opts.level[1]

\* the stream the encoder of the QRCode makes of the content of the call
CallStream == EncodedBits(q[1].encoder[1], Bytes(call.content))

\* C1: once encode has built and scored the candidates of all 8 masks, the
\* symbol and the mask the QRCode retains are those of a candidate whose
\* penalty score no other candidate undercuts, and of the candidates with
\* that lowest score it is the one with the lowest mask index.
C1_LowestPenaltyLowestMask ==
    (pc = "mask" /\ mask = numMasks) \/ (pc = "returned" /\ ret.qrcode = "q")
    => /\ Len(scores) = numMasks
       /\ q[1].symbol # NilPtr
       /\ q[1].mask \in 0..(numMasks - 1)
       /\ q[1].symbol[1].mask = q[1].mask
       /\ penalty = scores[q[1].mask + 1]
       /\ \A m \in 0..(numMasks - 1) :
             /\ scores[q[1].mask + 1] <= scores[m + 1]
             /\ scores[m + 1] = scores[q[1].mask + 1] => q[1].mask <= m

\* a QRCode is returned whose lowest score is shared by two candidates,
\* neither of them the first
C1_Witness ==
    /\ pc = "returned"
    /\ ret.qrcode = "q"
    /\ q[1].mask > 0
    /\ \E m \in (q[1].mask + 1)..(numMasks - 1) :
          scores[m + 1] = scores[q[1].mask + 1]

\* the pad codewords 0xEC, 0x11, 0xEC, ... that fill n bits
PadCodewords(n) ==
    [i \in 1..n |->
        LET value == IF ((i - 1) \div 8) % 2 = 0 THEN 236 ELSE 17
        IN  (value \div (2 ^ (7 - ((i - 1) % 8)))) % 2]

\* the data d padded to total bits: zero bits to the next multiple of 8,
\* then pad codewords
Padded(d, total) ==
    LET zeros == (8 - (Len(d) % 8)) % 8
    IN  d \o Zeros(zeros) \o PadCodewords(total - Len(d) - zeros)

\* C2: addPadding, on a stream that is at most numDataBits long, appends
\* zero bits up to the next multiple of 8 and then the pad codewords 0xEC,
\* 0x11 alternately, 0xEC first, until the length is numDataBits exactly; a
\* stream of length numDataBits is left as it is; nothing panics.
C2_Padding ==
    [][(pc = "addPadding" /\ Len(q[1].data) <= numDataBits(q[1].version))
       => /\ pc' = "encodeBlocks"
          /\ Len(q'[1].data) = numDataBits(q[1].version)
          /\ q'[1].data = Padded(q[1].data, numDataBits(q[1].version))
          /\ (Len(q[1].data) = numDataBits(q[1].version)
              => q'[1].data = q[1].data)]_vars

\* the stream before the padding
Terminated == CallStream \o Zeros(numTerminatorBits)

\* padding has added zero bits and at least three pad codewords
C2_Witness ==
    /\ pc = "encodeBlocks"
    /\ Len(Terminated) % 8 # 0
    /\ Len(q[1].data) - Len(Terminated) > 24
    /\ Len(q[1].data) = numDataBits(q[1].version)

\* C3: for a content that New or newWithForcedVersion encodes (its stream
\* is no longer than numDataBits), min(4, numDataBits - encoded bits)
\* terminator bits are appended, all zero, right after the encoded stream: the
\* stream that addPadding receives is the encoded stream and these zeros, and
\* the padded stream starts with them.
C3_TerminatorBits ==
    (/\ pc \in {"addPadding", "encodeBlocks"}
     /\ Len(CallStream) <= numDataBits(q[1].version))
    => LET n == Min(4, numDataBits(q[1].version) - Len(CallStream))
           expected == CallStream \o Zeros(n)
       IN  /\ numTerminatorBits = n
           /\ pc = "addPadding" => q[1].data = expected
           /\ pc = "encodeBlocks"
              => SubSeq(q[1].data, 1, Len(expected)) = expected

\* fewer than four terminator bits, and more than none, were appended
C3_Witness ==
    /\ pc = "addPadding"
    /\ numTerminatorBits \in 1..3
    /\ q[1].data = CallStream \o Zeros(numTerminatorBits)

\* the blocks of a version in block order, each with its count of data
\* codewords, its count of error-correction codewords and the bit of the
\* padded data where its data starts
RECURSIVE BlockShapes(_, _, _, _)
BlockShapes(groups, g, j, start) ==
    IF g > Len(groups) THEN << >>
    ELSE IF j >= groups[g].numBlocks THEN BlockShapes(groups, g + 1, 0, start)
         ELSE << [count |-> groups[g].numDataCodewords,
                  ec |-> groups[g].numCodewords - groups[g].numDataCodewords,
                  start |-> start] >>
              \o BlockShapes(groups, g, j + 1,
                             start + 8 * groups[g].numDataCodewords)

RECURSIVE SumMin(_, _, _)
SumMin(counts, k, i) ==
    IF k > Len(counts) THEN 0
    ELSE Min(counts[k], i) + SumMin(counts, k + 1, i)

\* the number of codewords that come before the i-th codeword (from 0) of
\* block k when blocks of the given counts are listed column by column and
\* a block without an i-th codeword is skipped
Col(counts, i, k) ==
    SumMin(counts, 1, i) + Cardinality({b \in 1..(k - 1) : counts[b] > i})

\* encodeBlocks has just returned the final message in encoded
EncodeBlocksDone == pc = "mask" /\ mask = 0

\* C4: the data part of the message that encodeBlocks returns lists the
\* data codewords column by column: the i-th data codeword of block k stands
\* right after the codewords of the earlier columns and those of the earlier
\* blocks that have an i-th codeword; an exhausted block takes no place, so
\* the places of all data codewords are distinct and fill the data part.
C4_DataInterleaved ==
    EncodeBlocksDone
    => LET shapes == BlockShapes(q[1].version.block, 1, 0, 0)
           counts == SubSeq([k \in 1..Len(shapes) |-> shapes[k].count],
                            1, Len(shapes))
           total == SumMin(counts, 1, Len(q[1].data))
           cells == {c \in (1..Len(shapes)) \X (0..(total - 1)) :
                        c[2] < counts[c[1]]}
       IN  /\ 8 * total = Len(q[1].data)
           /\ Len(encoded) >= 8 * total
           /\ \A c \in cells :
                 /\ Col(counts, c[2], c[1]) \in 0..(total - 1)
                 /\ ByteAt(encoded, 8 * Col(counts, c[2], c[1]))
                    = ByteAt(q[1].data, shapes[c[1]].start + 8 * c[2])
           /\ Cardinality({Col(counts, c[2], c[1]) : c \in cells}) = total

\* a message was interleaved from blocks of unequal data codeword counts
C4_Witness ==
    /\ EncodeBlocksDone
    /\ \E g, h \in 1..Len(q[1].version.block) :
          q[1].version.block[g].numDataCodewords
          < q[1].version.block[h].numDataCodewords
    /\ Len(encoded) > Len(q[1].data)

\* C5: the message that encodeBlocks returns is the interleaved data
\* codewords, then the error-correction codewords of the blocks listed column
\* by column in block order, then numRemainderBits zero bits; its
\* length is 8 times the sum over the block groups of numBlocks * numCodewords,
\* plus numRemainderBits.
C5_FinalMessage ==
    EncodeBlocksDone
    => LET v == q[1].version
           shapes == BlockShapes(v.block, 1, 0, 0)
           n == Len(shapes)
           ecCounts == SubSeq([k \in 1..n |-> shapes[k].ec], 1, n)
           ec == SubSeq([k \in 1..n |->
                            reedsolomonEncode(
                                Substr(q[1].data, shapes[k].start,
                                       shapes[k].start + 8 * shapes[k].count),
                                shapes[k].ec)], 1, n)
           dataLen == Len(q[1].data)
           ecTotal == SumMin(ecCounts, 1, Len(encoded))
           sum == LET groups == v.block
                  IN  IF Len(groups) = 1
                      THEN groups[1].numBlocks * groups[1].numCodewords
                      ELSE groups[1].numBlocks * groups[1].numCodewords
                           + groups[2].numBlocks * groups[2].numCodewords
       IN  /\ Len(v.block) \in 1..2
           /\ Len(encoded) = 8 * sum + v.numRemainderBits
           /\ Len(encoded) = dataLen + 8 * ecTotal + v.numRemainderBits
           /\ \A k \in 1..n : \A i \in 0..(ecCounts[k] - 1) :
                 ByteAt(encoded, dataLen + 8 * Col(ecCounts, i, k))
                 = ByteAt(ec[k], 8 * shapes[k].count + 8 * i)
           /\ \A r \in 1..v.numRemainderBits :
                 encoded[dataLen + 8 * ecTotal + r] = 0

\* a message of several blocks that ends in remainder bits, with an
\* error-correction codeword that is not zero
C5_Witness ==
    /\ EncodeBlocksDone
    /\ q[1].version.numRemainderBits > 0
    /\ q[1].version.block[1].numBlocks > 1
    /\ Len(encoded) = numMessageBits(q[1].version)
    /\ \E i \in (Len(q[1].data) + 1)..Len(encoded) : encoded[i] = 1

\* the version classes in the order stated: the first and last version of
\* each, and the encoder type it is encoded with
StatedClasses ==
    << [first |-> 1, last |-> 9, type |-> dataEncoderType1To9],
       [first |-> 10, last |-> 26, type |-> dataEncoderType10To26],
       [first |-> 27, last |-> 40, type |-> dataEncoderType27To40] >>

\* the content of the call as the encoder of the i-th class encodes it
ClassStream(i) ==
    EncodedBits(newDataEncoder(StatedClasses[i].type), Bytes(call.content))

\* a version of the i-th class holds, at the level of the call, the content
\* as encoded with the widths of that class
Admits(i) ==
    LET len == Len(ClassStream(i))
    IN  \E r \in 1..Len(versions) :
            /\ versions[r].level = CallLevel
            /\ versions[r].version
                  \in StatedClasses[i].first..StatedClasses[i].last
            /\ len <= numDataBits(versions[r])

Fits == \E i \in 1..Len(StatedClasses) : Admits(i)

\* New has chosen a version and is about to encode
NewChose == call.fn = "New" /\ pc = "addTerminatorBits"

\* C6: New goes through the classes V1-9, V10-26, V27-40 in this order and
\* stops at the first class of which a version admits the content as that
\* class encodes it: the encoder, the bit stream and the version it keeps are
\* those of that class.
C6_FirstAdmittingClass ==
    NewChose
    => \E i \in 1..Len(StatedClasses) :
          /\ Admits(i)
          /\ \A h \in 1..(i - 1) : ~Admits(h)
          /\ q[1].encoder = Ptr(newDataEncoder(StatedClasses[i].type))
          /\ q[1].data = ClassStream(i)
          /\ q[1].version.version
                \in StatedClasses[i].first..StatedClasses[i].last
          /\ q[1].version.level = CallLevel
          /\ q[1].VersionNumber = q[1].version.version
          /\ Len(q[1].data) <= numDataBits(q[1].version)

\* New chose a version of the last class, after the first two admitted none
C6_Witness ==
    /\ NewChose
    /\ q[1].version.version >= 27
    /\ ~Admits(1)
    /\ ~Admits(2)
    /\ Len(ClassStream(3)) > Len(ClassStream(1))

\* C7: New called with a content that fits no version of any class at the
\* level of the call returns nil and an error at once, without a panic and
\* without a symbol built; called with a content that fits, it enters encode,
\* no step of which panics, and returns a QRCode with a symbol, and no
\* error.
C7_NewReturns ==
    [][/\ (pc = "idle" /\ call'.fn = "New")
          => IF Fits'
             THEN /\ pc' = "addTerminatorBits"
                  /\ q' # NilPtr
                  /\ ret' = NoReturn
             ELSE /\ pc' = "returned"
                  /\ ret'.qrcode = "nil"
                  /\ ret'.err # Nil
                  /\ q' = NilPtr
                  /\ scores' = << >>
       /\ call.fn = "New"
          => /\ pc' \notin {"panicked", "exited"}
             /\ pc' = "returned" => /\ ret' = [qrcode |-> "q", err |-> Nil]
                                    /\ q'[1].symbol # NilPtr
                                    /\ Len(scores') = numMasks]_vars

\* New has returned an error for a content no version holds
C7_Witness ==
    /\ call.fn = "New"
    /\ pc = "returned"
    /\ ret = [qrcode |-> "nil", err |-> ErrContentTooLong]
    /\ q = NilPtr
    /\ ~Fits

\* the content of the forced call, encoded, is longer than the forced
\* version holds at the level of the call
ForcedTooLong ==
    /\ call.fn = "newWithForcedVersion"
    /\ call.version \in 1..40
    /\ getQRCodeVersion(call.level, call.version) # NilPtr
    /\ LET type == forcedEncoderType(call.version)[1]
           v == getQRCodeVersion(call.level, call.version)[1]
       IN  Len(EncodedBits(newDataEncoder(type), Bytes(call.content)))
           > numDataBits(v)

\* C8: when the content encoded for a forced version in 1..40 is longer
\* than the version holds, newWithForcedVersion does not panic, and what it
\* returns is nil and an error.
C8_ForcedTooLongIsReturned ==
    ForcedTooLong
    => /\ pc # "panicked"
       /\ pc = "returned" => (ret.qrcode = "nil" /\ ret.err # Nil)

\* C9: for a forced version outside 1..40, newWithForcedVersion returns
\* nil and an error to its caller, and encodes nothing.
C9_InvalidVersionIsReturned ==
    (call.fn = "newWithForcedVersion" /\ call.version \notin 1..40)
    => /\ pc = "returned"
       /\ ret.qrcode = "nil"
       /\ ret.err # Nil
       /\ q = NilPtr

\* the quiet-zone size asked of New: the value of the option, 4 without it
AskedQuietZoneSize ==
    IF call.opts.quiet = NilPtr THEN 4 ELSE call.opts.quiet[1]

\* C10: the symbol New builds has the quiet-zone size that the option
\* QuitZoneSize gives, 4 when the option is not given, and its side is the
\* symbol size plus twice that quiet-zone size.
C10_QuietZoneSizeOption ==
    (call.fn = "New" /\ q # NilPtr /\ q[1].symbol # NilPtr)
    => /\ q[1].symbol[1].quietZoneSize = AskedQuietZoneSize
       /\ q[1].symbol[1].size
          = symbolSize(q[1].version) + 2 * AskedQuietZoneSize

\* New was called with the option Version(v), v in 1..40
VersionGiven ==
    /\ call.fn = "New"
    /\ call.opts.version # NilPtr
    /\ call.opts.version[1] \in 1..40

\* the version given holds the content of the call, encoded with the widths
\* of the version's class, at the level of the call
GivenVersionHolds ==
    LET v == call.opts.version[1]
        row == getQRCodeVersion(CallLevel, v)
        type == forcedEncoderType(v)[1]
    IN  /\ row # NilPtr
        /\ Len(EncodedBits(newDataEncoder(type), Bytes(call.content)))
           <= numDataBits(row[1])

\* C11: when New is given Version(v) with v in 1..40, the QRCode it returns
\* has version v, and New returns an error when version v is too small for
\* the content.
C11_VersionOptionForces ==
    (VersionGiven /\ pc = "returned")
    => IF GivenVersionHolds
       THEN ret.qrcode = "q" => /\ q[1].VersionNumber = call.opts.version[1]
                                /\ q[1].version.version = call.opts.version[1]
       ELSE ret.qrcode = "nil" /\ ret.err # Nil

\* a post-condition of encode is breached in the step that is next: the
\* data as padded are not numDataBits long, the candidate symbol of the mask
\* cannot be built, or it is built with empty modules
BreachNext ==
    \/ /\ pc = "addPadding"
       /\ Len(q'[1].data) # numDataBits(q[1].version)
    \/ /\ pc = "mask"
       /\ mask < numMasks
       /\ LET s == buildRegularSymbol(q[1].version, mask, encoded, q[1].margin)
          IN  \/ s.err # Nil
              \/ numEmptyModules(s.symbol[1]) # 0

AskedWidth == IF call.opts.width = NilPtr THEN 0 ELSE call.opts.width[1]

AskedHeight == IF call.opts.height = NilPtr THEN 0 ELSE call.opts.height[1]

\* the pixels of an image on an axis for which asked was given: k times
\* realSize for asked = -k, realSize for a smaller asked that is not
\* negative, else asked
StatedPixels(asked, realSize) ==
    IF asked < 0 THEN (0 - asked) * realSize
    ELSE IF asked < realSize THEN realSize ELSE asked

\* C13: with realSize the side of the symbol, every image that Image returns
\* for a width or height of -k has k * realSize pixels on that axis and
\* modules of k pixels; for a width or height from 0 to realSize - 1 it has
\* realSize pixels; and the image of a second call has the width and height
\* of the image of the first.
C13_ImageSize ==
    \A n \in 1..Len(images) :
        LET realSize == q[1].symbol[1].size
            img == images[n]
        IN  /\ img.width = StatedPixels(AskedWidth, realSize)
            /\ img.height = StatedPixels(AskedHeight, realSize)
            /\ AskedWidth < 0 => img.pixelsPerModuleX = 0 - AskedWidth
            /\ AskedHeight < 0 => img.pixelsPerModuleY = 0 - AskedHeight
            /\ img.width = images[1].width
            /\ img.height = images[1].height
            /\ q[1].width = img.width
            /\ q[1].height = img.height

\* Image was called twice on a QRCode made with a width of -k, k > 1, and a
\* height from 0 to realSize - 1
C13_Witness ==
    /\ Len(images) = 2
    /\ AskedWidth < 0 - 1
    /\ AskedHeight \in 0..(q[1].symbol[1].size - 1)
    /\ images[2].width = (0 - AskedWidth) * q[1].symbol[1].size
    /\ images[2].height = q[1].symbol[1].size

\* the group of the n-th block of a version of one or two groups
BlockGroup(groups, n) == IF n <= groups[1].numBlocks THEN 1 ELSE 2

\* the bit of the padded data where the n-th block starts: after the data
\* codewords of the blocks before it
BlockStart(groups, n) ==
    IF n <= groups[1].numBlocks
    THEN 8 * (n - 1) * groups[1].numDataCodewords
    ELSE 8 * (groups[1].numBlocks * groups[1].numDataCodewords
              + (n - 1 - groups[1].numBlocks) * groups[2].numDataCodewords)

\* C14: the blocks that encodeBlocks splits the padded data into, in group
\* order and block order, cover contiguous ranges of 8 * numDataCodewords bits
\* each: each starts where the one before it ended, the first at bit 0, and the
\* last ends at numDataBits; each block holds its range followed by
\* numCodewords - numDataCodewords error-correction codewords, which start at
\* ecStartOffset = 8 * numDataCodewords.
C14_BlocksPartitionData ==
    pc = "encodeBlocks"
    => LET groups == q[1].version.block
           data == q[1].data
           block == splitBlocks(data, groups, 1, 0, 0)
           count == Len(block)
           bits(n) == 8 * groups[BlockGroup(groups, n)].numDataCodewords
           all(n) == 8 * groups[BlockGroup(groups, n)].numCodewords
       IN  /\ Len(groups) \in 1..2
           /\ count = numBlocks(q[1].version)
           /\ count >= 1
           /\ BlockStart(groups, 1) = 0
           /\ BlockStart(groups, count) + bits(count) = Len(data)
           /\ Len(data) = numDataBits(q[1].version)
           /\ \A n \in 1..count :
                 /\ bits(n) > 0
                 /\ n > 1 => BlockStart(groups, n)
                             = BlockStart(groups, n - 1) + bits(n - 1)
                 /\ block[n].ecStartOffset = bits(n)
                 /\ Len(block[n].data) = all(n)
                 /\ all(n) > bits(n)
                 /\ SubSeq(block[n].data, 1, bits(n))
                    = SubSeq(data, BlockStart(groups, n) + 1,
                             BlockStart(groups, n) + bits(n))

\* data are about to be split into blocks of two groups, of different
\* lengths
C14_Witness ==
    /\ pc = "encodeBlocks"
    /\ Len(q[1].version.block) = 2
    /\ q[1].version.block[1].numBlocks > 1
    /\ q[1].version.block[1].numDataCodewords
       # q[1].version.block[2].numDataCodewords
    /\ Len(q[1].data) = numDataBits(q[1].version)

====
